---- MODULE Spec2Model ----
(***************************************************************************)
(* Model of the two stock-price utilities of the repository:               *)
(*   stock_fetcher.py  (Provider A, Alpha Vantage daily series -> CSV)     *)
(*   stock_prices.py   (Provider B, Yahoo Finance quotes -> CSV)           *)
(* Text is modelled as sequences of one-character strings, so that         *)
(* stripping, upper-casing, lexicographic sorting, date parsing and CSV    *)
(* quoting are computed the way the code (and the libraries it calls)      *)
(* computes them.                                                          *)
(***************************************************************************)
EXTENDS Integers, Sequences, FiniteSets, TLC

VARIABLES
    aPc,        \* Provider A: position inside fetch_stock_prices
    aResp,      \* Provider A: the response of http.get
    aPayload,   \* Provider A: response.json()
    aRows,      \* Provider A: the list of row dicts
    aErr,       \* Provider A: the exception that ended the call ("none" if none)
    aNet,       \* Provider A: number of http.get calls issued
    aDecoded,   \* Provider A: response.json() has been called
    aDir,       \* Provider A: the parent directory of output_csv exists
    aFile,      \* Provider A: content of output_csv (whether it exists, its lines)
    aDir0,      \* Provider A: aDir before the call
    aFile0,     \* Provider A: aFile before the call
    aOpens,     \* Provider A: number of times output_csv was opened for writing
    bPc,        \* Provider B: position inside fetch_and_save_stock_prices
    bSymbols,   \* Provider B: the symbols argument
    bNorm,      \* Provider B: normalised_symbols
    bResp,      \* Provider B: the response of urlopen
    bPrices,    \* Provider B: the prices list
    bErr,       \* Provider B: the exception that ended the call
    bNet,       \* Provider B: number of urlopen calls issued
    bFile,      \* Provider B: content of csv_path (whether it exists, its text)
    bFile0,     \* Provider B: bFile before the call
    bOpens,     \* Provider B: number of times csv_path was opened for writing
    bBack,      \* rows obtained by parsing csv_path back
    nPc,        \* _normalise_symbols driver: position
    nIn,        \* _normalise_symbols driver: the argument
    nOut,       \* _normalise_symbols(nIn)
    nOut2,      \* _normalise_symbols(nOut)
    bCall       \* Provider B: the function that was called

aVars == <<aPc, aResp, aPayload, aRows, aErr, aNet, aDecoded, aDir, aFile,
           aDir0, aFile0, aOpens>>
bVars == <<bCall, bPc, bSymbols, bNorm, bResp, bPrices, bErr, bNet, bFile, bFile0,
           bOpens, bBack>>
nVars == <<nPc, nIn, nOut, nOut2>>
vars == <<aVars, bVars, nVars>>

\* Bounds of the model.
MaxEntries == 2      \* date keys in a Provider A response
MaxSymbols == 1      \* items of a Provider B symbols argument
MaxResults == 2      \* entries of a Provider B quoteResponse.result
MaxRecords == 2      \* records handed to save_prices_to_csv directly
MaxNormLen == 3      \* items of a list handed to _normalise_symbols

\* An exception: its type and (for the errors the code raises itself) which
\* of its messages it carries.
Exc(type, msg) == [type |-> type, msg |-> msg]

NoExc == Exc("none", "")

(***************************************************************************)
(* Text helpers.                                                           *)
(***************************************************************************)
DigitChars == <<"0", "1", "2", "3", "4", "5", "6", "7", "8", "9">>

IsDigit(c) == \E i \in 1..10 : DigitChars[i] = c

DigitVal(c) == (CHOOSE i \in 1..10 : DigitChars[i] = c) - 1

\* Code point of a character, for the characters that occur in date keys.
Ord(c) == IF c = "-" THEN 45 ELSE IF IsDigit(c) THEN 48 + DigitVal(c) ELSE 120

RECURSIVE StrLess(_, _)
\* Python's s < t on str: lexicographic by code point, a proper prefix is less.
StrLess(s, t) ==
    IF t = <<>> THEN FALSE
    ELSE IF s = <<>> THEN TRUE
    ELSE IF Ord(Head(s)) # Ord(Head(t)) THEN Ord(Head(s)) < Ord(Head(t))
    ELSE StrLess(Tail(s), Tail(t))

RECURSIVE NatToStr(_)
\* str(n) for a natural number n.
NatToStr(n) ==
    IF n < 10 THEN <<DigitChars[n + 1]>>
    ELSE NatToStr(n \div 10) \o <<DigitChars[(n % 10) + 1]>>

RECURSIVE StrToNat(_)
\* int(s) for a non-empty string of digits.
StrToNat(s) ==
    IF s = <<>> THEN 0
    ELSE StrToNat(SubSeq(s, 1, Len(s) - 1)) * 10 + DigitVal(s[Len(s)])

RECURSIVE ZeroPad(_, _)
\* s.zfill(w)
ZeroPad(s, w) == IF Len(s) >= w THEN s ELSE ZeroPad(<<"0">> \o s, w)

RECURSIVE Split(_, _)
\* s.split(sep) for a one-character separator.
Split(s, sep) ==
    IF \A i \in 1..Len(s) : s[i] # sep THEN <<s>>
    ELSE LET i == CHOOSE j \in 1..Len(s) :
                      s[j] = sep /\ \A k \in 1..(j - 1) : s[k] # sep
         IN <<SubSeq(s, 1, i - 1)>> \o Split(SubSeq(s, i + 1, Len(s)), sep)

RECURSIVE Join(_, _)
\* sep.join(parts)
Join(parts, sep) ==
    IF parts = <<>> THEN <<>>
    ELSE IF Len(parts) = 1 THEN parts[1]
    ELSE parts[1] \o sep \o Join(Tail(parts), sep)

(***************************************************************************)
(* Provider A: stock_fetcher.fetch_stock_prices                            *)
(***************************************************************************)
Invalid == [valid |-> FALSE, year |-> 0, month |-> 0, day |-> 0]

IsLeap(y) == (y % 4 = 0 /\ y % 100 # 0) \/ y % 400 = 0

DaysInMonth(y, m) ==
    IF m = 2 THEN (IF IsLeap(y) THEN 29 ELSE 28)
    ELSE IF m \in {4, 6, 9, 11} THEN 30 ELSE 31

\* datetime.strptime(date_str, "%Y-%m-%d").date(): a four-digit year, a month
\* and a day of one or two digits each, forming a date of the calendar;
\* Invalid stands for the ValueError raised otherwise.
Strptime(date_str) ==
    LET parts == Split(date_str, "-") IN
    IF Len(parts) # 3 THEN Invalid
    ELSE IF \E p \in 1..3 : parts[p] = <<>>
                 \/ \E i \in 1..Len(parts[p]) : ~IsDigit(parts[p][i])
    THEN Invalid
    ELSE IF Len(parts[1]) # 4 \/ Len(parts[2]) > 2 \/ Len(parts[3]) > 2
    THEN Invalid
    ELSE LET y == StrToNat(parts[1])
             m == StrToNat(parts[2])
             d == StrToNat(parts[3])
         IN IF y < 1 \/ m \notin 1..12 THEN Invalid
            ELSE IF d \notin 1..DaysInMonth(y, m) THEN Invalid
            ELSE [valid |-> TRUE, year |-> y, month |-> m, day |-> d]

\* date.isoformat()
Isoformat(date) ==
    ZeroPad(NatToStr(date.year), 4) \o <<"-">> \o ZeroPad(NatToStr(date.month), 2)
        \o <<"-">> \o ZeroPad(NatToStr(date.day), 2)

\* The ISO key of a calendar date.
IsoKey(d) == Isoformat([valid |-> TRUE, year |-> d.year, month |-> d.month, day |-> d.day])

\* A date key written without zero padding, as strptime also accepts it.
LooseKey(y, m, d) == NatToStr(y) \o <<"-">> \o NatToStr(m) \o <<"-">> \o NatToStr(d)

\* The date keys responses are built from: four ISO keys, one key that is not
\* zero-padded, one that names no month.
DateKeys ==
    { IsoKey([year |-> 2024, month |-> 1, day |-> 5]),
      IsoKey([year |-> 2024, month |-> 9, day |-> 30]),
      IsoKey([year |-> 2024, month |-> 10, day |-> 1]),
      IsoKey([year |-> 2023, month |-> 12, day |-> 31]),
      LooseKey(2024, 9, 30),
      LooseKey(2024, 13, 1) }

\* The keys of one day's mapping, in the order the row is built from them.
DayKeys == <<"1. open", "2. high", "3. low", "4. close", "5. adjusted close",
             "6. volume">>

DayKeySet == {DayKeys[i] : i \in 1..Len(DayKeys)}

\* The fieldnames of the DictWriter.
FieldNamesA == <<"date", "open", "high", "low", "close", "adjusted_close", "volume">>

\* One day's mapping with every key, its values determined by v.
FullDay(v) == [k \in DayKeySet |-> <<v, k>>]

\* One day's mapping that lacks the adjusted close.
PartialDay == [k \in DayKeySet \ {"5. adjusted close"} |-> <<0, k>>]

DayVariants == {FullDay(1), FullDay(2), PartialDay}

\* The mappings of at most MaxEntries date keys.
Mappings ==
    UNION { [K -> DayVariants] :
              K \in {S \in SUBSET DateKeys : Cardinality(S) <= MaxEntries} }

\* The values "Time Series (Daily)" can have: a mapping (items), or null.
SeriesSet ==
    [null : {FALSE}, items : Mappings] \cup {[null |-> TRUE, items |-> <<>>]}

SeriesKey == "Time Series (Daily)"
ErrorKey == "Error Message"

\* The decoded JSON objects: any combination of the error field and the series
\* key, beside a key the code does not look at.
Payloads ==
    { [k \in dom |-> IF k = SeriesKey THEN s
                     ELSE IF k = ErrorKey THEN "Invalid API call" ELSE "note"] :
        dom \in { {"Note"}, {"Note", ErrorKey}, {"Note", SeriesKey},
                  {"Note", ErrorKey, SeriesKey} },
        s \in SeriesSet }

StatusesA == {200, 201, 304, 404, 500}

\* A response: its status and its body, which is the text of a JSON object
\* (is_json, decoding to value) or some other text.
ResponsesA ==
    [status_code : StatusesA, is_json : {TRUE}, value : Payloads]
      \cup [status_code : StatusesA, is_json : {FALSE}, value : {[k \in {} |-> "note"]}]

\* The response and payload variables before they are assigned.
NoPayload == [k \in {} |-> "note"]

NoResponse == [status_code |-> 0, is_json |-> FALSE, value |-> NoPayload]

\* Response.ok with the threshold at the server errors.
OkBelow500(response) == response.status_code < 500

\* requests.Response.ok: raise_for_status() raises for 400 <= status < 600 only.
Ok(response) == ~(400 <= response.status_code /\ response.status_code < 600)

RECURSIVE SortedForward(_)
\* sorted(entries.items()) without reverse=True
SortedForward(S) ==
    IF S = {} THEN <<>>
    ELSE LET mn == CHOOSE k \in S : \A j \in S : j = k \/ StrLess(k, j)
         IN <<mn>> \o SortedForward(S \ {mn})

RECURSIVE SortedReverse(_)
\* The keys of sorted(entries.items(), reverse=True): keys are unique, so the
\* tuples are ordered by their key alone.
SortedReverse(S) ==
    IF S = {} THEN <<>>
    ELSE LET mx == CHOOSE k \in S : \A j \in S : j = k \/ StrLess(j, k)
         IN <<mx>> \o SortedReverse(S \ {mx})

\* The row dict of one (date_str, day_data) item.
Row(date_str, day_data) ==
    [date |-> Isoformat(Strptime(date_str)),
     open |-> day_data["1. open"],
     high |-> day_data["2. high"],
     low |-> day_data["3. low"],
     close |-> day_data["4. close"],
     adjusted_close |-> day_data["5. adjusted close"],
     volume |-> day_data["6. volume"]]

\* What evaluating the row dict of one item raises: the date is parsed first,
\* then the six keys are looked up.
RowError(date_str, day_data) ==
    IF Strptime(date_str) = Invalid THEN "ValueError"
    ELSE IF DayKeySet \subseteq DOMAIN day_data THEN "none"
    ELSE "KeyError"

\* The list comprehension of lines 67-78 over the mapping entries: the rows,
\* or the exception of the first item (in iteration order) that raises one.
BuildRows(entries) ==
    LET keys == SortedReverse(DOMAIN entries)
        bad == {i \in 1..Len(keys) : RowError(keys[i], entries[keys[i]]) # "none"}
    IN IF bad = {}
       THEN [err |-> "none", rows |-> [i \in 1..Len(keys) |-> Row(keys[i], entries[keys[i]])]]
       ELSE LET first == CHOOSE i \in bad : \A j \in bad : i <= j
            IN [err |-> RowError(keys[first], entries[keys[first]]), rows |-> <<>>]

\* The line DictWriter writes for a row dict: its values in fieldnames order.
RowLineA(row) ==
    <<row.date, row.open, row.high, row.low, row.close, row.adjusted_close, row.volume>>

\* A path that does not exist, and a file left by an earlier call.
NoFile == [exists |-> FALSE, lines |-> <<>>]

OldFile ==
    [exists |-> TRUE,
     lines |-> <<FieldNamesA,
                 RowLineA(Row(IsoKey([year |-> 2020, month |-> 2, day |-> 29]),
                              FullDay(9)))>>]

AIdle ==
    /\ aPc = "idle" /\ aResp = NoResponse /\ aPayload = NoPayload /\ aRows = <<>>
    /\ aErr = NoExc /\ aNet = 0 /\ aDecoded = FALSE /\ aDir = FALSE
    /\ aFile = NoFile /\ aDir0 = FALSE /\ aFile0 = NoFile /\ aOpens = 0

\* The state at the call of fetch_stock_prices: the destination may exist.
AInit ==
    /\ aPc = "get" /\ aResp = NoResponse /\ aPayload = NoPayload /\ aRows = <<>>
    /\ aErr = NoExc /\ aNet = 0 /\ aDecoded = FALSE /\ aOpens = 0
    /\ aDir0 \in BOOLEAN
    /\ aFile0 \in {NoFile, OldFile}
    /\ aFile0.exists => aDir0
    /\ aDir = aDir0 /\ aFile = aFile0

ARaise(type, msg) == aPc' = "raised" /\ aErr' = Exc(type, msg)

\* line 49: http.get returns a response
AGet ==
    /\ aPc = "get"
    /\ \E r \in ResponsesA : aResp' = r
    /\ aNet' = aNet + 1
    /\ aPc' = "status"
    /\ UNCHANGED <<aPayload, aRows, aErr, aDecoded, aDir, aFile, aDir0, aFile0, aOpens>>
    /\ UNCHANGED <<bVars, nVars>>

\* line 49 with the request issued again after a failure
AGetRetries ==
    /\ aPc = "get"
    /\ aNet' = aNet + 1
    /\ UNCHANGED <<aPc, aErr, aResp, aPayload, aRows, aDecoded, aDir, aFile, aDir0, aFile0, aOpens>>
    /\ UNCHANGED <<bVars, nVars>>

\* line 49: http.get raises (timeout after 10 s, connection failure)
AGetFails ==
    /\ aPc = "get"
    /\ aNet' = aNet + 1
    /\ ARaise("RequestException", "")
    /\ UNCHANGED <<aResp, aPayload, aRows, aDecoded, aDir, aFile, aDir0, aFile0, aOpens>>
    /\ UNCHANGED <<bVars, nVars>>

\* lines 50-53
ACheckStatus ==
    /\ aPc = "status"
    /\ IF ~Ok(aResp) THEN ARaise("StockPriceFetchError", "HTTP status")
       ELSE aPc' = "json" /\ aErr' = aErr
    /\ UNCHANGED <<aResp, aPayload, aRows, aNet, aDecoded, aDir, aFile, aDir0, aFile0, aOpens>>
    /\ UNCHANGED <<bVars, nVars>>

\* line 55
ADecode ==
    /\ aPc = "json"
    /\ aDecoded' = TRUE
    /\ IF ~aResp.is_json
       THEN ARaise("JSONDecodeError", "") /\ aPayload' = aPayload
       ELSE aPc' = "error_field" /\ aPayload' = aResp.value /\ aErr' = aErr
    /\ UNCHANGED <<aResp, aRows, aNet, aDir, aFile, aDir0, aFile0, aOpens>>
    /\ UNCHANGED <<bVars, nVars>>

\* lines 56-63 with the two tests in the other order
ACheckSeriesKeyFirst ==
    /\ aPc = "error_field"
    /\ IF SeriesKey \notin DOMAIN aPayload THEN ARaise("StockPriceFetchError", "Missing key")
       ELSE IF ErrorKey \in DOMAIN aPayload THEN ARaise("StockPriceFetchError", "API error")
       ELSE aPc' = "series_key" /\ aErr' = aErr
    /\ UNCHANGED <<aResp, aPayload, aRows, aNet, aDecoded, aDir, aFile, aDir0, aFile0, aOpens>>
    /\ UNCHANGED <<bVars, nVars>>

\* lines 56-57
ACheckErrorField ==
    /\ aPc = "error_field"
    /\ IF ErrorKey \in DOMAIN aPayload THEN ARaise("StockPriceFetchError", "API error")
       ELSE aPc' = "series_key" /\ aErr' = aErr
    /\ UNCHANGED <<aResp, aPayload, aRows, aNet, aDecoded, aDir, aFile, aDir0, aFile0, aOpens>>
    /\ UNCHANGED <<bVars, nVars>>

\* lines 59-63
ACheckSeriesKey ==
    /\ aPc = "series_key"
    /\ IF SeriesKey \notin DOMAIN aPayload THEN ARaise("StockPriceFetchError", "Missing key")
       ELSE aPc' = "rows" /\ aErr' = aErr
    /\ UNCHANGED <<aResp, aPayload, aRows, aNet, aDecoded, aDir, aFile, aDir0, aFile0, aOpens>>
    /\ UNCHANGED <<bVars, nVars>>

\* lines 65-97 with the rows built while they are written: the file is open
\* and holds its header when an item raises
AMapRowsWhileWriting ==
    /\ aPc = "rows"
    /\ IF aPayload[SeriesKey].null
       THEN ARaise("AttributeError", "") /\ UNCHANGED <<aRows, aDir, aFile, aOpens>>
       ELSE LET built == BuildRows(aPayload[SeriesKey].items) IN
            IF built.err # "none"
            THEN /\ ARaise(built.err, "")
                 /\ aDir' = TRUE
                 /\ aFile' = [exists |-> TRUE, lines |-> <<FieldNamesA>>]
                 /\ aOpens' = aOpens + 1
                 /\ aRows' = aRows
            ELSE /\ aPc' = "mkdir" /\ aRows' = built.rows /\ aErr' = aErr
                 /\ UNCHANGED <<aDir, aFile, aOpens>>
    /\ UNCHANGED <<aResp, aPayload, aNet, aDecoded, aDir0, aFile0>>
    /\ UNCHANGED <<bVars, nVars>>

\* lines 65-78
AMapRows ==
    /\ aPc = "rows"
    /\ IF aPayload[SeriesKey].null
       THEN ARaise("AttributeError", "") /\ aRows' = aRows
       ELSE LET built == BuildRows(aPayload[SeriesKey].items) IN
            IF built.err # "none" THEN ARaise(built.err, "") /\ aRows' = aRows
            ELSE aPc' = "mkdir" /\ aRows' = built.rows /\ aErr' = aErr
    /\ UNCHANGED <<aResp, aPayload, aNet, aDecoded, aDir, aFile, aDir0, aFile0, aOpens>>
    /\ UNCHANGED <<bVars, nVars>>

\* lines 80-81
AMkdir ==
    /\ aPc = "mkdir"
    /\ aDir' = TRUE
    /\ aPc' = "open"
    /\ UNCHANGED <<aResp, aPayload, aRows, aErr, aNet, aDecoded, aFile, aDir0, aFile0, aOpens>>
    /\ UNCHANGED <<bVars, nVars>>

\* lines 80-81: the directory cannot be created
AMkdirFails ==
    /\ aPc = "mkdir"
    /\ ~aDir
    /\ ARaise("OSError", "")
    /\ UNCHANGED <<aResp, aPayload, aRows, aNet, aDecoded, aDir, aFile, aDir0, aFile0, aOpens>>
    /\ UNCHANGED <<bVars, nVars>>

\* line 83: open("w") creates or truncates the file
AOpen ==
    /\ aPc = "open"
    /\ aFile' = [exists |-> TRUE, lines |-> <<>>]
    /\ aOpens' = aOpens + 1
    /\ aPc' = "header"
    /\ UNCHANGED <<aResp, aPayload, aRows, aErr, aNet, aDecoded, aDir, aDir0, aFile0>>
    /\ UNCHANGED <<bVars, nVars>>

\* line 83: the file cannot be opened for writing
AOpenFails ==
    /\ aPc = "open"
    /\ ARaise("OSError", "")
    /\ UNCHANGED <<aResp, aPayload, aRows, aNet, aDecoded, aDir, aFile, aDir0, aFile0, aOpens>>
    /\ UNCHANGED <<bVars, nVars>>

\* lines 84-96
AWriteHeader ==
    /\ aPc = "header"
    /\ aFile' = [aFile EXCEPT !.lines = Append(@, FieldNamesA)]
    /\ aPc' = "writerows"
    /\ UNCHANGED <<aResp, aPayload, aRows, aErr, aNet, aDecoded, aDir, aDir0, aFile0, aOpens>>
    /\ UNCHANGED <<bVars, nVars>>

\* line 97
AWriteRows ==
    /\ aPc = "writerows"
    /\ aFile' = [aFile EXCEPT !.lines = @ \o [i \in 1..Len(aRows) |-> RowLineA(aRows[i])]]
    /\ aPc' = "return"
    /\ UNCHANGED <<aResp, aPayload, aRows, aErr, aNet, aDecoded, aDir, aDir0, aFile0, aOpens>>
    /\ UNCHANGED <<bVars, nVars>>

\* line 99
AReturn ==
    /\ aPc = "return"
    /\ aPc' = "returned"
    /\ UNCHANGED <<aResp, aPayload, aRows, aErr, aNet, aDecoded, aDir, aFile, aDir0, aFile0, aOpens>>
    /\ UNCHANGED <<bVars, nVars>>

(***************************************************************************)
(* Python values, as json.load and the code produce them.                  *)
(***************************************************************************)
PyNone == [t |-> "None", s |-> <<>>, n |-> 0]

PyStr(s) == [t |-> "str", s |-> s, n |-> 0]

PyInt(n) == [t |-> "int", s |-> <<>>, n |-> n]

\* A float with one decimal, held in tenths: PyFloat(152) is 15.2.
PyFloat(tenths) == [t |-> "float", s |-> <<>>, n |-> tenths]

\* A naive datetime, held as the seconds since 1970-01-01T00:00:00.
PyDatetime(seconds) == [t |-> "datetime", s |-> <<>>, n |-> seconds]

\* bool(v)
Truthy(v) ==
    IF v.t = "None" THEN FALSE
    ELSE IF v.t = "str" THEN v.s # <<>>
    ELSE IF v.t \in {"int", "float"} THEN v.n # 0
    ELSE TRUE

\* float(v) succeeds: v is a number (text that is no number raises ValueError).
FloatOk(v) == v.t \in {"int", "float"}

\* float(v) for a number v
Float(v) == IF v.t = "int" THEN PyFloat(v.n * 10) ELSE v

\* datetime.fromtimestamp(v), within January 1970 and with the local time zone
\* at offset 0.
FromTimestamp(v) == PyDatetime(v.n)

\* The date and time fields of a datetime.
DatePart(dt) ==
    ZeroPad(NatToStr(1970), 4) \o <<"-">> \o ZeroPad(NatToStr(1), 2) \o <<"-">>
        \o ZeroPad(NatToStr(1 + dt.n \div 86400), 2)

TimePart(dt) ==
    ZeroPad(NatToStr((dt.n % 86400) \div 3600), 2) \o <<":">>
        \o ZeroPad(NatToStr((dt.n % 3600) \div 60), 2) \o <<":">>
        \o ZeroPad(NatToStr(dt.n % 60), 2)

\* datetime.isoformat()
IsoformatDT(dt) == DatePart(dt) \o <<"T">> \o TimePart(dt)

\* repr of a float with one decimal
FloatRepr(v) == NatToStr(v.n \div 10) \o <<".">> \o NatToStr(v.n % 10)

\* str(v), as csv.writer applies it to a cell (None is written as "").
CellText(v) ==
    IF v.t = "None" THEN <<>>
    ELSE IF v.t = "str" THEN v.s
    ELSE IF v.t = "int" THEN NatToStr(v.n)
    ELSE IF v.t = "float" THEN FloatRepr(v)
    ELSE DatePart(v) \o <<" ">> \o TimePart(v)

(***************************************************************************)
(* Provider B: stock_prices._normalise_symbols                             *)
(***************************************************************************)
Whitespace == {" ", "\t", "\n"}

RECURSIVE LStrip(_)
LStrip(s) == IF s # <<>> /\ Head(s) \in Whitespace THEN LStrip(Tail(s)) ELSE s

RECURSIVE RStrip(_)
RStrip(s) ==
    IF s # <<>> /\ s[Len(s)] \in Whitespace THEN RStrip(SubSeq(s, 1, Len(s) - 1)) ELSE s

\* str.strip()
Strip(s) == RStrip(LStrip(s))

UpperChar(c) == IF c = "a" THEN "A" ELSE IF c = "m" THEN "M" ELSE c

\* str.upper(), over the letters a, m, A, M
Upper(s) == [i \in 1..Len(s) |-> UpperChar(s[i])]

RECURSIVE NormaliseLoopRaw(_, _, _)
\* The loop with the raw symbol remembered in seen instead of the normalised one.
NormaliseLoopRaw(symbols, normalised, seen) ==
    IF symbols = <<>> THEN normalised
    ELSE LET symbol == Upper(Strip(Head(symbols))) IN
         IF symbol = <<>> \/ Head(symbols) \in seen
         THEN NormaliseLoopRaw(Tail(symbols), normalised, seen)
         ELSE NormaliseLoopRaw(Tail(symbols), Append(normalised, symbol),
                               seen \cup {Head(symbols)})

RECURSIVE NormaliseLoop(_, _, _)
\* lines 22-27: the loop over the remaining symbols
NormaliseLoop(symbols, normalised, seen) ==
    IF symbols = <<>> THEN normalised
    ELSE LET symbol == Upper(Strip(Head(symbols))) IN
         IF symbol = <<>> \/ symbol \in seen
         THEN NormaliseLoop(Tail(symbols), normalised, seen)
         ELSE NormaliseLoop(Tail(symbols), Append(normalised, symbol),
                            seen \cup {symbol})

\* As _normalise_symbols, deduplicating on the raw text.
NormaliseSymbolsRaw(symbols) == NormaliseLoopRaw(symbols, <<>>, {})

\* _normalise_symbols(symbols)
NormaliseSymbols(symbols) == NormaliseLoop(symbols, <<>>, {})

\* All sequences over S of length at most n.
SeqsUpTo(S, n) == UNION {[1..k -> S] : k \in 0..n}

\* Raw symbols handed to _normalise_symbols.
RawSymbols ==
    { <<>>, <<" ">>, <<"a">>, <<"A">>, <<" ", "a", "\t">>, <<"m", " ">>,
      <<"a", " ", "m">> }

NInit == nPc = "call" /\ nIn \in SeqsUpTo(RawSymbols, MaxNormLen) /\ nOut = <<>> /\ nOut2 = <<>>

\* _normalise_symbols applied to the argument
NormaliseOnce ==
    /\ nPc = "call"
    /\ nOut' = NormaliseSymbols(nIn)
    /\ nPc' = "once"
    /\ UNCHANGED <<nIn, nOut2>>
    /\ UNCHANGED <<aVars, bVars>>

\* _normalise_symbols applied to its own result
NormaliseAgain ==
    /\ nPc = "once"
    /\ nOut2' = NormaliseSymbols(nOut)
    /\ nPc' = "twice"
    /\ UNCHANGED <<nIn, nOut>>
    /\ UNCHANGED <<aVars, bVars>>

(***************************************************************************)
(* Provider B: stock_prices.fetch_stock_prices                             *)
(***************************************************************************)
\* A key that a dict does not have (used only to build dicts).
Missing == [t |-> "missing", s |-> <<>>, n |-> 0]

\* The dict with the keys of f whose value is not Missing.
MkDict(f) == [k \in {j \in DOMAIN f : f[j] # Missing} |-> f[k]]

\* dict.get(key, default)
Get(dict, key, default) == IF key \in DOMAIN dict THEN dict[key] ELSE default

EmptyDict == [k \in {} |-> PyNone]

USD == <<"U", "S", "D">>

\* What (currency, regularMarketTime) an entry carries.
CurrencyTimes ==
    { <<Missing, Missing>>, <<PyStr(USD), PyInt(90061)>>, <<PyStr(<<>>), PyInt(0)>>,
      <<PyNone, PyNone>> }

\* The entries quoteResponse.result is built from: priced entries with every
\* kind of currency and time, entries whose price is absent, null or text that
\* is no number, and entries whose symbol is absent or null.
EntryUniverse ==
    { MkDict([symbol |-> PyStr(<<"A">>), regularMarketPrice |-> p,
              currency |-> ct[1], regularMarketTime |-> ct[2]]) :
        p \in {PyInt(0), PyFloat(152)}, ct \in CurrencyTimes }
    \cup
    { MkDict([symbol |-> PyStr(<<"M">>), regularMarketPrice |-> p,
              currency |-> PyStr(USD), regularMarketTime |-> PyInt(90061)]) :
        p \in {Missing, PyNone, PyStr(<<"n", "/", "a">>)} }
    \cup
    { MkDict([symbol |-> sy, regularMarketPrice |-> PyFloat(152),
              currency |-> PyStr(USD), regularMarketTime |-> PyInt(90061)]) :
        sy \in {Missing, PyNone} }

\* The decoded bodies: with or without quoteResponse, with or without result.
PayloadsB ==
    { EmptyDict, [k \in {"quoteResponse"} |-> EmptyDict] }
    \cup
    { [k \in {"quoteResponse"} |-> [j \in {"result"} |-> r]] :
        r \in SeqsUpTo(EntryUniverse, MaxResults) }

\* The statuses urlopen returns a response for, and those it raises HTTPError
\* (a URLError) for.
ReturnedStatusesB == {200, 201, 204}

HTTPErrorStatusesB == {304, 404, 500}

\* line 72
ResultOf(payload) == Get(Get(payload, "quoteResponse", EmptyDict), "result", <<>>)

\* line 80 with truthiness in place of the comparison with None
SkippedFalsy(entry) ==
    \/ ~Truthy(Get(entry, "symbol", PyNone))
    \/ ~Truthy(Get(entry, "regularMarketPrice", PyNone))

\* line 80: the entry is skipped
Skipped(entry) ==
    \/ Get(entry, "symbol", PyNone) = PyNone
    \/ Get(entry, "regularMarketPrice", PyNone) = PyNone

\* lines 82-89: the record of an entry that is kept
RecordOf(entry) ==
    LET currency == Get(entry, "currency", PyNone)
        timestamp == Get(entry, "regularMarketTime", PyNone)
    IN [symbol |-> entry["symbol"],
        price |-> Float(entry["regularMarketPrice"]),
        currency |-> IF Truthy(currency) THEN currency ELSE PyStr(<<>>),
        timestamp |-> IF Truthy(timestamp) THEN FromTimestamp(timestamp) ELSE PyNone]

RECURSIVE Transform(_, _)
\* lines 75-91: the loop over the remaining entries; float() raises ValueError
\* at the first kept entry whose price is no number.
Transform(result, prices) ==
    IF result = <<>> THEN [err |-> "none", prices |-> prices]
    ELSE IF Skipped(Head(result)) THEN Transform(Tail(result), prices)
    ELSE IF ~FloatOk(Head(result)["regularMarketPrice"])
    THEN [err |-> "ValueError", prices |-> <<>>]
    ELSE Transform(Tail(result), Append(prices, RecordOf(Head(result))))

(***************************************************************************)
(* Provider B: stock_prices.save_prices_to_csv                             *)
(***************************************************************************)
FieldNamesB == <<"symbol", "price", "currency", "timestamp">>

\* The characters of a field name.
NameText(name) ==
    CASE name = "symbol" -> <<"s", "y", "m", "b", "o", "l">>
      [] name = "price" -> <<"p", "r", "i", "c", "e">>
      [] name = "currency" -> <<"c", "u", "r", "r", "e", "n", "c", "y">>
      [] name = "timestamp" -> <<"t", "i", "m", "e", "s", "t", "a", "m", "p">>

\* lines 105-108 without the conversion of the timestamp
RowOfPlain(price) ==
    [i \in 1..Len(FieldNamesB) |-> Get(price, FieldNamesB[i], PyStr(<<>>))]

\* lines 105-108: the cells of the row of a record, in fieldnames order
RowOf(price) ==
    [i \in 1..Len(FieldNamesB) |->
        LET v == Get(price, FieldNamesB[i], PyStr(<<>>)) IN
        IF FieldNamesB[i] = "timestamp" /\ v.t = "datetime"
        THEN PyStr(IsoformatDT(v)) ELSE v]

\* csv.writer, QUOTE_MINIMAL: a field holding the delimiter, the quote
\* character or a line-terminator character is quoted, its quotes doubled.
NeedsQuote(s) == \E i \in 1..Len(s) : s[i] \in {",", "\"", "\r", "\n"}

RECURSIVE DoubleQuotes(_)
DoubleQuotes(s) ==
    IF s = <<>> THEN <<>>
    ELSE (IF Head(s) = "\"" THEN <<"\"", "\"">> ELSE <<Head(s)>>) \o DoubleQuotes(Tail(s))

CsvField(s) == IF NeedsQuote(s) THEN <<"\"">> \o DoubleQuotes(s) \o <<"\"">> ELSE s

\* writer.writerow: the fields joined by commas, ended by "\r\n"
CsvLine(fields) ==
    Join([i \in 1..Len(fields) |-> CsvField(fields[i])], <<",">>) \o <<"\r", "\n">>

\* line 103
HeaderText == CsvLine([i \in 1..Len(FieldNamesB) |-> NameText(FieldNamesB[i])])

RECURSIVE RowsText(_)
\* lines 104-109
RowsText(prices) ==
    IF prices = <<>> THEN <<>>
    ELSE LET row == RowOf(Head(prices)) IN
         CsvLine([i \in 1..Len(row) |-> CellText(row[i])]) \o RowsText(Tail(prices))

\* csv.reader's state: its parser state, the field and the row being read,
\* and the rows read so far.
ReaderStart == [state |-> "START_RECORD", field |-> <<>>, row |-> <<>>, rows |-> <<>>]

SaveField(r, next) == [r EXCEPT !.state = next, !.field = <<>>, !.row = Append(r.row, r.field)]

EndRecord(r) ==
    [state |-> "EAT_CRNL", field |-> <<>>, row |-> <<>>,
     rows |-> Append(r.rows, Append(r.row, r.field))]

AddChar(r, c, next) == [r EXCEPT !.state = next, !.field = Append(r.field, c)]

\* One character read by csv.reader (the text of a file opened with newline="").
ReaderStep(r, c) ==
    LET newline == c \in {"\r", "\n"} IN
    IF r.state = "EAT_CRNL" /\ newline THEN r
    ELSE IF r.state = "START_RECORD" /\ newline
    THEN [r EXCEPT !.state = "EAT_CRNL", !.rows = Append(r.rows, <<>>)]
    ELSE IF r.state \in {"START_RECORD", "EAT_CRNL", "START_FIELD"}
    THEN IF newline THEN EndRecord(r)
         ELSE IF c = "\"" THEN [r EXCEPT !.state = "IN_QUOTED_FIELD"]
         ELSE IF c = "," THEN SaveField(r, "START_FIELD")
         ELSE AddChar(r, c, "IN_FIELD")
    ELSE IF r.state = "IN_FIELD"
    THEN IF newline THEN EndRecord(r)
         ELSE IF c = "," THEN SaveField(r, "START_FIELD")
         ELSE AddChar(r, c, "IN_FIELD")
    ELSE IF r.state = "IN_QUOTED_FIELD"
    THEN IF c = "\"" THEN [r EXCEPT !.state = "QUOTE_IN_QUOTED_FIELD"]
         ELSE AddChar(r, c, "IN_QUOTED_FIELD")
    ELSE \* QUOTE_IN_QUOTED_FIELD
         IF c = "\"" THEN AddChar(r, c, "IN_QUOTED_FIELD")
         ELSE IF c = "," THEN SaveField(r, "START_FIELD")
         ELSE IF newline THEN EndRecord(r)
         ELSE AddChar(r, c, "IN_FIELD")

RECURSIVE ReaderRun(_, _, _, _)
\* The reader after the characters text[i..j], read in order (the test on the
\* left half only makes it be evaluated before the right half is read).
ReaderRun(text, i, j, r) ==
    IF i > j THEN r
    ELSE IF i = j THEN ReaderStep(r, text[i])
    ELSE LET mid == (i + j) \div 2
             left == ReaderRun(text, i, mid, r)
         IN IF left.state = "" THEN left ELSE ReaderRun(text, mid + 1, j, left)

\* The rows csv.reader yields for the text: at the end of the text a record
\* that is still open is yielded too.
CsvParse(text) ==
    LET r == ReaderRun(text, 1, Len(text), ReaderStart) IN
    IF r.state \in {"START_RECORD", "EAT_CRNL"} THEN r.rows
    ELSE Append(r.rows, Append(r.row, r.field))

\* list(csv.reader(file))
CsvRead(text) == CsvParse(text)

(***************************************************************************)
(* Provider B: the calls                                                   *)
(***************************************************************************)
\* A path that does not exist, and a file left by an earlier call.
NoText == [exists |-> FALSE, text |-> <<>>]

OldText == [exists |-> TRUE, text |-> HeaderText]

\* Raw symbols handed to fetch_and_save_stock_prices.
RawSymbolsB == { <<>>, <<" ">>, <<" ", "a", "\t">> }

\* What a record handed to save_prices_to_csv carries beside its symbol.
RecordRests ==
    { <<PyFloat(152), PyStr(USD), PyDatetime(90061)>>,
      <<PyInt(7), Missing, Missing>>,
      <<Missing, PyStr(<<>>), PyNone>>,
      <<PyFloat(0), PyNone, PyDatetime(0)>> }

\* The records handed to save_prices_to_csv directly: symbols with a comma, a
\* quote and a line break in them, fields that are absent or None.
RecordUniverse ==
    { MkDict([symbol |-> PyStr(sy), price |-> r[1], currency |-> r[2], timestamp |-> r[3]]) :
        sy \in { <<"A">>, <<"A", ",", "B">>, <<"\"", "A">>, <<"A", "\r", "\n", "B">> },
        r \in RecordRests }
    \cup
    { MkDict([symbol |-> Missing, price |-> PyFloat(152), currency |-> PyStr(USD),
              timestamp |-> PyNone]) }

NoResponseB == [status |-> 0, is_json |-> FALSE, value |-> EmptyDict]

BIdle ==
    /\ bCall = "idle" /\ bPc = "idle" /\ bSymbols = <<>> /\ bNorm = <<>>
    /\ bResp = NoResponseB /\ bPrices = <<>> /\ bErr = NoExc /\ bNet = 0
    /\ bFile = NoText /\ bFile0 = NoText /\ bOpens = 0 /\ bBack = <<>>

\* The state at a call of fetch_and_save_stock_prices.
BInit ==
    /\ bCall = "fetch_and_save_stock_prices" /\ bPc = "normalise"
    /\ bSymbols \in SeqsUpTo(RawSymbolsB, MaxSymbols)
    /\ bNorm = <<>> /\ bResp = NoResponseB /\ bPrices = <<>> /\ bErr = NoExc
    /\ bNet = 0 /\ bOpens = 0 /\ bBack = <<>>
    /\ bFile0 \in {NoText, OldText}
    /\ bFile = bFile0

\* The state at a call of save_prices_to_csv with records of the caller.
SInit ==
    /\ bCall = "save_prices_to_csv" /\ bPc = "mkdir"
    /\ bPrices \in SeqsUpTo(RecordUniverse, MaxRecords)
    /\ bSymbols = <<>> /\ bNorm = <<>> /\ bResp = NoResponseB /\ bErr = NoExc
    /\ bNet = 0 /\ bOpens = 0 /\ bBack = <<>>
    /\ bFile0 \in {NoText, OldText}
    /\ bFile = bFile0

BRaise(type, msg) == bPc' = "raised" /\ bErr' = Exc(type, msg)

\* lines 55-57 with the test applied to the argument instead of the result
BNormaliseTestsArgument ==
    /\ bPc = "normalise"
    /\ bNorm' = NormaliseSymbols(bSymbols)
    /\ IF bSymbols = <<>> THEN BRaise("ValueError", "No valid stock symbols")
       ELSE bPc' = "urlopen" /\ bErr' = bErr
    /\ UNCHANGED <<bCall, bSymbols, bResp, bPrices, bNet, bFile, bFile0, bOpens, bBack>>
    /\ UNCHANGED <<aVars, nVars>>

\* lines 55-57
BNormalise ==
    /\ bPc = "normalise"
    /\ bNorm' = NormaliseSymbols(bSymbols)
    /\ IF bNorm' = <<>> THEN BRaise("ValueError", "No valid stock symbols")
       ELSE bPc' = "urlopen" /\ bErr' = bErr
    /\ UNCHANGED <<bCall, bSymbols, bResp, bPrices, bNet, bFile, bFile0, bOpens, bBack>>
    /\ UNCHANGED <<aVars, nVars>>

\* lines 59-63: urlopen returns a response (its body is read by json.load)
BUrlopen ==
    /\ bPc = "urlopen"
    /\ bNet' = bNet + 1
    /\ \E st \in ReturnedStatusesB : bResp' = [bResp EXCEPT !.status = st]
    /\ bPc' = "status"
    /\ UNCHANGED <<bCall, bSymbols, bNorm, bPrices, bErr, bFile, bFile0, bOpens, bBack>>
    /\ UNCHANGED <<aVars, nVars>>

\* lines 63, 69-70: urlopen raises HTTPError for the status, a URLError
BUrlopenHTTPError ==
    /\ bPc = "urlopen"
    /\ bNet' = bNet + 1
    /\ \E st \in HTTPErrorStatusesB : bResp' = [bResp EXCEPT !.status = st]
    /\ BRaise("RuntimeError", "Failed to fetch stock data")
    /\ UNCHANGED <<bCall, bSymbols, bNorm, bPrices, bFile, bFile0, bOpens, bBack>>
    /\ UNCHANGED <<aVars, nVars>>

\* lines 63, 69-70: urlopen raises URLError (no connection, connect timeout)
BUrlopenURLError ==
    /\ bPc = "urlopen"
    /\ bNet' = bNet + 1
    /\ BRaise("RuntimeError", "Failed to fetch stock data")
    /\ UNCHANGED <<bCall, bSymbols, bNorm, bResp, bPrices, bFile, bFile0, bOpens, bBack>>
    /\ UNCHANGED <<aVars, nVars>>

\* line 63: the read of the response times out after 10 s (no URLError)
BUrlopenTimeout ==
    /\ bPc = "urlopen"
    /\ bNet' = bNet + 1
    /\ BRaise("TimeoutError", "")
    /\ UNCHANGED <<bCall, bSymbols, bNorm, bResp, bPrices, bFile, bFile0, bOpens, bBack>>
    /\ UNCHANGED <<aVars, nVars>>

\* lines 64-67
BCheckStatus ==
    /\ bPc = "status"
    /\ IF bResp.status # 200 THEN BRaise("RuntimeError", "unexpected status")
       ELSE bPc' = "load" /\ bErr' = bErr
    /\ UNCHANGED <<bCall, bSymbols, bNorm, bResp, bPrices, bNet, bFile, bFile0, bOpens, bBack>>
    /\ UNCHANGED <<aVars, nVars>>

\* line 68: the body is read and decoded
BLoadJson ==
    /\ bPc = "load"
    /\ \/ /\ \E payload \in PayloadsB :
                bResp' = [bResp EXCEPT !.is_json = TRUE, !.value = payload]
          /\ bPc' = "transform" /\ bErr' = bErr
       \/ /\ bResp' = bResp
          /\ BRaise("JSONDecodeError", "")
    /\ UNCHANGED <<bCall, bSymbols, bNorm, bPrices, bNet, bFile, bFile0, bOpens, bBack>>
    /\ UNCHANGED <<aVars, nVars>>

\* lines 72-91; line 121: fetch_stock_prices returns the prices
BTransform ==
    /\ bPc = "transform"
    /\ LET out == Transform(ResultOf(bResp.value), <<>>) IN
       IF out.err # "none" THEN BRaise(out.err, "") /\ bPrices' = bPrices
       ELSE bPc' = "mkdir" /\ bPrices' = out.prices /\ bErr' = bErr
    /\ UNCHANGED <<bCall, bSymbols, bNorm, bResp, bNet, bFile, bFile0, bOpens, bBack>>
    /\ UNCHANGED <<aVars, nVars>>

\* lines 97-98
BMkdir ==
    /\ bPc = "mkdir"
    /\ bPc' = "open"
    /\ UNCHANGED <<bCall, bSymbols, bNorm, bResp, bPrices, bErr, bNet, bFile, bFile0, bOpens, bBack>>
    /\ UNCHANGED <<aVars, nVars>>

\* line 101: open("w") creates or truncates the file
BOpen ==
    /\ bPc = "open"
    /\ bFile' = [exists |-> TRUE, text |-> <<>>]
    /\ bOpens' = bOpens + 1
    /\ bPc' = "header"
    /\ UNCHANGED <<bCall, bSymbols, bNorm, bResp, bPrices, bErr, bNet, bFile0, bBack>>
    /\ UNCHANGED <<aVars, nVars>>

\* line 101: the file cannot be opened for writing
BOpenFails ==
    /\ bPc = "open"
    /\ BRaise("OSError", "")
    /\ UNCHANGED <<bCall, bSymbols, bNorm, bResp, bPrices, bNet, bFile, bFile0, bOpens, bBack>>
    /\ UNCHANGED <<aVars, nVars>>

\* lines 102-103
BWriteHeader ==
    /\ bPc = "header"
    /\ bFile' = [bFile EXCEPT !.text = @ \o HeaderText]
    /\ bPc' = "rows"
    /\ UNCHANGED <<bCall, bSymbols, bNorm, bResp, bPrices, bErr, bNet, bFile0, bOpens, bBack>>
    /\ UNCHANGED <<aVars, nVars>>

\* lines 104-109; line 123
BWriteRows ==
    /\ bPc = "rows"
    /\ bFile' = [bFile EXCEPT !.text = @ \o RowsText(bPrices)]
    /\ bPc' = "returned"
    /\ UNCHANGED <<bCall, bSymbols, bNorm, bResp, bPrices, bErr, bNet, bFile0, bOpens, bBack>>
    /\ UNCHANGED <<aVars, nVars>>

\* The caller reads the file back with csv.reader.
ReadBack ==
    /\ bPc = "returned"
    /\ bBack' = CsvRead(bFile.text)
    /\ bPc' = "read"
    /\ UNCHANGED <<bCall, bSymbols, bNorm, bResp, bPrices, bErr, bNet, bFile, bFile0, bOpens>>
    /\ UNCHANGED <<aVars, nVars>>

(***************************************************************************)
(* The specification: one call of one of the functions.                    *)
(***************************************************************************)
NIdle == nPc = "idle" /\ nIn = <<>> /\ nOut = <<>> /\ nOut2 = <<>>

Init ==
    \/ AInit /\ BIdle /\ NIdle
    \/ AIdle /\ BInit /\ NIdle
    \/ AIdle /\ SInit /\ NIdle
    \/ AIdle /\ BIdle /\ NInit

Next ==
    \/ AGet \/ AGetFails \/ ACheckStatus \/ ADecode \/ ACheckErrorField
    \/ ACheckSeriesKey \/ AMapRows \/ AMkdir \/ AMkdirFails \/ AOpen \/ AOpenFails
    \/ AWriteHeader \/ AWriteRows \/ AReturn
    \/ BNormalise \/ BUrlopen \/ BUrlopenHTTPError \/ BUrlopenURLError
    \/ BUrlopenTimeout \/ BCheckStatus \/ BLoadJson \/ BTransform \/ BMkdir
    \/ BOpen \/ BOpenFails \/ BWriteHeader \/ BWriteRows \/ ReadBack
    \/ NormaliseOnce \/ NormaliseAgain

Spec == Init /\ [][Next]_vars

(***************************************************************************)
(* Properties of Provider A.                                               *)
(***************************************************************************)
StockPriceFetchError == "StockPriceFetchError"

\* The exception types a failure caused by the response can surface as.
ResponseErrorTypes ==
    {StockPriceFetchError, "JSONDecodeError", "AttributeError", "ValueError", "KeyError"}

\* http.get has returned a response.
AHasResponse == aNet = 1 /\ aErr.type # "RequestException"

\* C1: when fetch_stock_prices fails because of the response (bad status,
\* error field, missing series key, body or item that cannot be mapped), the
\* destination file is as it was before the call, no directory was created
\* and the file was never opened for writing.
C1_NoFileOnResponseFailure ==
    (aPc = "raised" /\ aErr.type \in ResponseErrorTypes)
        => (aFile = aFile0 /\ aDir = aDir0 /\ aOpens = 0)

\* A call that failed on a day entry lacking a field, where neither the
\* directory nor the file existed.
C1_Witness ==
    /\ aPc = "raised" /\ aErr.type = "KeyError"
    /\ ~aDir0 /\ ~aFile0.exists
    /\ ~aDir /\ ~aFile.exists

\* Provider A: a status for which response.ok is false ends the call with
\* StockPriceFetchError.
ANotOkFails ==
    (AHasResponse /\ ~(aResp.status_code < 400) /\ aPc # "status")
        => (aPc = "raised" /\ aErr = Exc(StockPriceFetchError, "HTTP status"))

\* Provider A: a payload with the error field ends the call with
\* StockPriceFetchError.
AErrorFieldFails ==
    (AHasResponse /\ aResp.is_json /\ ErrorKey \in DOMAIN aResp.value
        /\ aPc \notin {"status", "json", "error_field"})
        => (aPc = "raised" /\ aErr.type = StockPriceFetchError)

\* Provider B: a status other than 200 ends the call with RuntimeError.
BNon200Fails ==
    (bNet = 1 /\ bResp.status \notin {0, 200} /\ bPc # "status")
        => (bPc = "raised" /\ bErr.type = "RuntimeError")

\* C2 as stated: every status other than 200 ends either fetch in its error
\* (StockPriceFetchError, RuntimeError), as does a Provider A error field.
C2_Original ==
    /\ (AHasResponse /\ aResp.status_code # 200 /\ aPc # "status")
           => (aPc = "raised" /\ aErr.type = StockPriceFetchError)
    /\ AErrorFieldFails
    /\ BNon200Fails

\* C2 as amended: Provider A fails with StockPriceFetchError for every status
\* for which response.ok is false (400 and above), Provider B with RuntimeError
\* for every status other than 200, Provider A with StockPriceFetchError for
\* every payload with the error field.
C2_Amended == ANotOkFails /\ AErrorFieldFails /\ BNon200Fails

\* Provider A has failed on a 404.
C2_Witness ==
    /\ aPc = "raised" /\ aResp.status_code = 404
    /\ aErr = Exc(StockPriceFetchError, "HTTP status")

\* The key is an ISO date: what isoformat gives for the date it parses to.
IsIsoKey(k) == Strptime(k).valid /\ Isoformat(Strptime(k)) = k

\* The response is valid: ISO date keys, each day with its six values.
AValidSeries ==
    /\ AHasResponse /\ aResp.status_code < 400 /\ aResp.is_json
    /\ ErrorKey \notin DOMAIN aResp.value
    /\ SeriesKey \in DOMAIN aResp.value
    /\ ~aResp.value[SeriesKey].null
    /\ \A k \in DOMAIN aResp.value[SeriesKey].items :
          /\ IsIsoKey(k)
          /\ DayKeySet \subseteq DOMAIN aResp.value[SeriesKey].items[k]

\* C5: for a valid response the file written is the header and one row per
\* date key, the dates strictly descending, each row with the values of its
\* date; and such a response never fails because of the response.
C5_RowsPerDateDescending ==
    /\ (AValidSeries /\ aPc = "returned") =>
          LET items == aResp.value[SeriesKey].items
              lines == aFile.lines
          IN /\ aFile.exists
             /\ Len(lines) = 1 + Cardinality(DOMAIN items)
             /\ lines[1] = FieldNamesA
             /\ \A i \in 2..(Len(lines) - 1) : StrLess(lines[i + 1][1], lines[i][1])
             /\ \A i \in 2..Len(lines) :
                   /\ lines[i][1] \in DOMAIN items
                   /\ LET day == items[lines[i][1]] IN
                      lines[i] = <<lines[i][1], day["1. open"], day["2. high"],
                                   day["3. low"], day["4. close"],
                                   day["5. adjusted close"], day["6. volume"]>>
    /\ (AValidSeries /\ aPc = "raised") => aErr.type = "OSError"

\* A call that returned after writing two rows.
C5_Witness ==
    /\ AValidSeries /\ aPc = "returned"
    /\ Cardinality(DOMAIN aResp.value[SeriesKey].items) = 2
    /\ Len(aFile.lines) = 3

\* C8: in either pipeline at most one request is issued, the file is opened
\* for writing at most once and only after the request succeeded and its
\* response was validated and transformed; a run whose fetch failed wrote
\* nothing, a run that returned issued one request and wrote the file once.
C8_OneRequestThenOneWrite ==
    /\ aNet <= 1 /\ aOpens <= 1
    /\ aOpens = 1 =>
          /\ AHasResponse /\ aResp.status_code < 400 /\ aResp.is_json
          /\ ErrorKey \notin DOMAIN aResp.value /\ SeriesKey \in DOMAIN aResp.value
          /\ Len(aRows) = Cardinality(DOMAIN aResp.value[SeriesKey].items)
    /\ (aPc = "raised" /\ aErr.type # "OSError") => (aOpens = 0 /\ aFile = aFile0)
    /\ aPc = "returned" => (aNet = 1 /\ aOpens = 1)
    /\ bCall = "fetch_and_save_stock_prices" =>
          /\ bNet <= 1 /\ bOpens <= 1
          /\ bOpens = 1 => (bNet = 1 /\ bResp.status = 200 /\ bResp.is_json
                              /\ Len(bPrices) <= Len(ResultOf(bResp.value)))
          /\ (bPc = "raised" /\ bErr.type # "OSError") => (bOpens = 0 /\ bFile = bFile0)
          /\ bPc = "returned" => (bNet = 1 /\ bOpens = 1)

\* Provider B returned after one request and one write over an older file.
C8_Witness ==
    /\ bCall = "fetch_and_save_stock_prices" /\ bPc = "returned"
    /\ bNet = 1 /\ bOpens = 1 /\ bFile0.exists /\ bFile # bFile0

\* The response passes the three checks of Provider A.
APassesChecks ==
    /\ AHasResponse /\ aResp.status_code < 400 /\ aResp.is_json
    /\ ErrorKey \notin DOMAIN aResp.value /\ SeriesKey \in DOMAIN aResp.value

\* Provider A checks the status first (without decoding the body), then the
\* error field, then the series key, each failing with StockPriceFetchError
\* and its own message; a response passing the three never raises it.
AChecksInOrder ==
    /\ (aPc = "raised" /\ AHasResponse /\ ~(aResp.status_code < 400))
           => (aErr = Exc(StockPriceFetchError, "HTTP status") /\ ~aDecoded)
    /\ (aPc = "raised" /\ AHasResponse /\ aResp.status_code < 400 /\ aResp.is_json
           /\ ErrorKey \in DOMAIN aResp.value)
           => aErr = Exc(StockPriceFetchError, "API error")
    /\ (aPc = "raised" /\ AHasResponse /\ aResp.status_code < 400 /\ aResp.is_json
           /\ ErrorKey \notin DOMAIN aResp.value /\ SeriesKey \notin DOMAIN aResp.value)
           => aErr = Exc(StockPriceFetchError, "Missing key")
    /\ APassesChecks => aErr.type # StockPriceFetchError

\* C10 as stated: the checks run in that order, and no failure caused by the
\* response surfaces as another type than StockPriceFetchError.
C10_Original ==
    /\ AChecksInOrder
    /\ (aPc = "raised" /\ aErr.type \in ResponseErrorTypes)
           => aErr.type = StockPriceFetchError

\* C10 as amended: the checks run in that order and a failure of one of the
\* three never surfaces as another type, but a body that is no JSON surfaces
\* as JSONDecodeError and a response that passes the three checks and cannot
\* be mapped to rows as AttributeError, ValueError or KeyError.
C10_Amended ==
    /\ AChecksInOrder
    /\ (aPc = "raised" /\ aErr.type = StockPriceFetchError) => ~APassesChecks
    /\ (aPc = "raised" /\ AHasResponse /\ aResp.status_code < 400 /\ ~aResp.is_json)
           => aErr.type = "JSONDecodeError"
    /\ (aPc = "raised" /\ APassesChecks)
           => aErr.type \in {"AttributeError", "ValueError", "KeyError", "OSError"}

\* A failed call whose payload had the error field and lacked the series key.
C10_Witness ==
    /\ aPc = "raised" /\ AHasResponse /\ aResp.status_code = 201 /\ aResp.is_json
    /\ ErrorKey \in DOMAIN aResp.value /\ SeriesKey \notin DOMAIN aResp.value
    /\ aErr.msg = "API error"

(***************************************************************************)
(* Properties of Provider B.                                               *)
(***************************************************************************)
FetchAndSave == bCall = "fetch_and_save_stock_prices"

\* Every item of the list is empty or whitespace only (so is the empty list).
AllBlank(symbols) ==
    \A i \in 1..Len(symbols) : \A j \in 1..Len(symbols[i]) : symbols[i][j] \in Whitespace

\* C3: for an empty or all-blank symbols argument the call fails with
\* ValueError, and no request is issued and no file written in that run.
C3_BlankInputFailsBeforeNetwork ==
    (FetchAndSave /\ AllBlank(bSymbols)) =>
        /\ bNet = 0 /\ bOpens = 0 /\ bFile = bFile0
        /\ bPc \in {"normalise", "raised"}
        /\ bPc = "raised" => bErr.type = "ValueError"

\* A call with one whitespace-only symbol that has failed.
C3_Witness ==
    /\ FetchAndSave /\ bSymbols = << <<" ">> >>
    /\ bPc = "raised" /\ bErr.type = "ValueError" /\ bNet = 0

\* The index of the first item of symbols that normalises to s.
FirstIndex(symbols, s) ==
    CHOOSE i \in 1..Len(symbols) :
        /\ Upper(Strip(symbols[i])) = s
        /\ \A j \in 1..(i - 1) : Upper(Strip(symbols[j])) # s

\* C4: the result of _normalise_symbols holds exactly the trimmed, upper-cased,
\* non-empty symbols of the argument, each once, in order of first appearance;
\* and normalising the result again changes nothing.
C4_NormaliseExactAndIdempotent ==
    /\ nPc \in {"once", "twice"} =>
          /\ {nOut[i] : i \in 1..Len(nOut)}
                = {Upper(Strip(nIn[i])) : i \in 1..Len(nIn)} \ {<<>>}
          /\ \A i, j \in 1..Len(nOut) : i # j => nOut[i] # nOut[j]
          /\ \A i, j \in 1..Len(nOut) :
                i < j => FirstIndex(nIn, nOut[i]) < FirstIndex(nIn, nOut[j])
    /\ nPc = "twice" => nOut2 = nOut

\* The analogue of ["aapl", "AAPL", " msft "]: two spellings of one symbol and
\* a padded one, normalised twice.
C4_Witness ==
    /\ nPc = "twice"
    /\ nIn = << <<"a">>, <<"A">>, <<"m", " ">> >>
    /\ nOut = << <<"A">>, <<"M">> >>

\* The dict has a value for the key (the key is present and not null).
HasValue(dict, key) == key \in DOMAIN dict /\ dict[key].t # "None"

HasBoth(entry) == HasValue(entry, "symbol") /\ HasValue(entry, "regularMarketPrice")

\* fetch_stock_prices has returned its list.
BFetched ==
    /\ FetchAndSave
    /\ \/ bPc \in {"mkdir", "open", "header", "rows", "returned", "read"}
       \/ bPc = "raised" /\ bErr.type = "OSError"

\* The entries of the response that have both a symbol and a price.
KeptEntries == SelectSeq(ResultOf(bResp.value), HasBoth)

\* C6: the list fetch_stock_prices returns is the entries that have both a
\* symbol and a price, in response order, with that symbol and that price as
\* a float; and when the transformation fails, it is never on an entry that
\* lacks its symbol or its price (only on a price that is no number).
C6_ReturnsEntriesWithBoth ==
    /\ BFetched =>
          /\ Len(bPrices) = Len(KeptEntries)
          /\ \A i \in 1..Len(bPrices) :
                /\ bPrices[i].symbol = KeptEntries[i]["symbol"]
                /\ bPrices[i].price.t = "float"
                /\ bPrices[i].price.n =
                      (IF KeptEntries[i]["regularMarketPrice"].t = "int"
                       THEN 10 * KeptEntries[i]["regularMarketPrice"].n
                       ELSE KeptEntries[i]["regularMarketPrice"].n)
    /\ (FetchAndSave /\ bPc = "raised" /\ bNet = 1 /\ bErr.type = "ValueError") =>
          \E i \in 1..Len(KeptEntries) :
              KeptEntries[i]["regularMarketPrice"].t = "str"

\* A response of two entries, the first without price, the second priced 0:
\* the list returned is the second alone.
C6_Witness ==
    /\ BFetched /\ bPc = "mkdir"
    /\ Len(ResultOf(bResp.value)) = 2
    /\ ~HasBoth(ResultOf(bResp.value)[1])
    /\ Len(bPrices) = 1 /\ bPrices[1].price = PyFloat(0)

\* C7: a kept entry's record has the entry's currency, or "" when the entry
\* has none, and a timestamp whenever the entry has a regularMarketTime value,
\* None only when it has none.
C7_CurrencyAndTimestamp ==
    (BFetched /\ Len(bPrices) = Len(KeptEntries)) =>
        \A i \in 1..Len(bPrices) :
            /\ bPrices[i].currency =
                  (IF HasValue(KeptEntries[i], "currency")
                   THEN KeptEntries[i]["currency"] ELSE PyStr(<<>>))
            /\ HasValue(KeptEntries[i], "regularMarketTime")
                  => bPrices[i].timestamp.t = "datetime"
            /\ bPrices[i].timestamp = PyNone
                  => ~HasValue(KeptEntries[i], "regularMarketTime")

\* The text a field of a record is read back as: "" for an absent field or
\* None, the ISO text of a datetime, the text of a number or a string.
ReadBackText(record, name) ==
    IF name \notin DOMAIN record THEN <<>>
    ELSE LET v == record[name] IN
         IF v.t = "None" THEN <<>>
         ELSE IF v.t = "str" THEN v.s
         ELSE IF v.t = "int" THEN NatToStr(v.n)
         ELSE IF v.t = "float" THEN NatToStr(v.n \div 10) \o <<".">> \o NatToStr(v.n % 10)
         ELSE IsoformatDT(v)

\* float(text) in tenths, for a text with one decimal.
ParseTenths(text) ==
    LET parts == Split(text, ".") IN StrToNat(parts[1]) * 10 + StrToNat(parts[2])

\* C9: the file save_prices_to_csv writes reads back as the header
\* symbol,price,currency,timestamp and one row per record in order, each row
\* with the record's symbol, price and currency (a float price parsing back to
\* the same number), "" for a field the record lacks, and the timestamp as
\* its ISO text.
C9_CsvRoundTrip ==
    bPc = "read" =>
        /\ Len(bBack) = 1 + Len(bPrices)
        /\ bBack[1] = <<NameText("symbol"), NameText("price"), NameText("currency"),
                        NameText("timestamp")>>
        /\ \A i \in 1..Len(bPrices) :
              /\ Len(bBack[i + 1]) = 4
              /\ \A f \in 1..4 :
                    bBack[i + 1][f] = ReadBackText(bPrices[i], FieldNamesB[f])
              /\ ("price" \in DOMAIN bPrices[i] /\ bPrices[i]["price"].t = "float")
                    => ParseTenths(bBack[i + 1][2]) = bPrices[i]["price"].n

\* Two records saved and read back, the first with a comma in its symbol and
\* a datetime, the second with a line break in its symbol.
C9_Witness ==
    /\ bCall = "save_prices_to_csv" /\ bPc = "read"
    /\ Len(bPrices) = 2 /\ Len(bBack) = 3
    /\ bBack[2][1] = <<"A", ",", "B">>
    /\ bBack[2][4] = IsoformatDT(PyDatetime(90061))
    /\ bBack[3][1] = <<"A", "\r", "\n", "B">>

====
